---- MODULE Spec2Model ----
(***************************************************************************)
(* Model of bevy_swash (src/src/lib.rs): the outlined-text cache           *)
(* (OutlinedGlyphs), its recompute system create_missing_text, the glyph   *)
(* layout create_glyph_images, the atlas composer compose_glyph_images and *)
(* the per-frame extraction extract_outlined_text.                         *)
(*                                                                         *)
(* Lengths are integers.  The font tables below are chosen so that every   *)
(* division by 2.0 of the source is exact (all metrics are multiples of    *)
(* the shaped size, and the shaped sizes are even).                        *)
(***************************************************************************)
EXTENDS Integers, Sequences, FiniteSets, TLC

\* ------------------------------------------------------------------ bounds

\* Cap on the image handles allocated by Assets<Image>::add over a run.
MaxImages == 4

\* Cap on the steps the application and its environment take over a run
\* (component operations, font loads, scale factor changes).
MaxOps == 4

\* ------------------------------------------------------------ value domain

Entities == {"e1", "e2"}

\* Handle<OutlinedFont> values; "f1" and "f2" are two font assets.
FontHandles == {"f1", "f2"}

\* An absent component (the entity is not matched by a query over it).
None == [none |-> TRUE]

\* Option::None of Render::render (lib.rs 140, 157).
NoBitmap == [some |-> FALSE]

\* Option::Some(image) of Render::render.
SomeBitmap(image) == [some |-> TRUE, value |-> image]

\* Characters of the section strings.  "X" stands for a character whose
\* glyph the scaler cannot render from outlines (Render::render gives None).
NL == "\n"

\* OutlineStyle (lib.rs 109-116): 0 is OutlineStyle::None, w > 0 is
\* OutlineStyle::Outline { width: w, .. }.
OutlineNone == 0

\* Anchor::as_vec() in units of 1/2: BottomLeft is (-1,-1), Center (0,0),
\* TopRight (1,1), Custom(Vec2(-1,-1)) is (-2,-2).
AnchorBottomLeft == [x |-> -1, y |-> -1]
AnchorCenter == [x |-> 0, y |-> 0]

\* JustifyOutlinedText (lib.rs 119-124).
Justify == {"Left", "Center", "Right"}

\* offset_z of a fill glyph (lib.rs 359) and of an outline glyph (lib.rs 345,
\* -0.001), in units of 1/1000.
FillZ == 0
OutlineZ == -1

\* ------------------------------------------------------------ font tables
\* swash is an external collaborator: the tables give, per character, the
\* glyph the charmap maps it to and what the scaler and shaper return for it,
\* per unit of shaped size.

\* Render::render returns None for this (font, character).
RenderFails(font, ch) == ch = "X"

\* Glyph placement and advance per unit of size: left, top, width, height,
\* advance, of the glyph charmap.map(ch) gives (lib.rs 413).  The newline
\* character is mapped like any other: font "f2" has an empty, zero-advance
\* glyph for it; font "f1" has no entry for it, so it maps to glyph 0, the
\* font's .notdef box.
BaseGlyph(font, ch) ==
  CASE ch = "A" -> [left |-> 0, top |-> 2, width |-> 1, height |-> 2, advance |-> 2]
    [] ch = "B" -> [left |-> 0, top |-> 1, width |-> 1, height |-> 1, advance |-> 1]
    [] ch = "X" -> [left |-> 0, top |-> 1, width |-> 1, height |-> 1, advance |-> 1]
    [] ch = " " -> [left |-> 0, top |-> 0, width |-> 0, height |-> 0, advance |-> 1]
    [] ch = NL /\ font = "f1" ->
                   [left |-> 0, top |-> 1, width |-> 1, height |-> 1, advance |-> 1]
    [] OTHER    -> [left |-> 0, top |-> 0, width |-> 0, height |-> 0, advance |-> 0]

\* shaper.metrics() (lib.rs 295-299) at the shaped size.
Metrics(font, size) == [ascent |-> 3 * size, descent |-> size, leading |-> size]

Half(v) == v \div 2

\* ------------------------------------------------------------- rasterizer

\* Render::new(&[Source::Outline]).format(Alpha).render(scaler, glyph_id)
RenderFill(font, ch, size) ==
  IF RenderFails(font, ch) THEN NoBitmap
  ELSE LET g == BaseGlyph(font, ch) IN
       SomeBitmap([left |-> g.left * size, top |-> g.top * size,
                   width |-> g.width * size, height |-> g.height * size])

\* ... .style(Stroke::new(stroke_width)...).render(scaler, glyph_id): the
\* stroke grows an inked glyph by stroke_width/2 on every side.
RenderStroke(font, ch, size, stroke_width) ==
  IF RenderFails(font, ch) THEN NoBitmap
  ELSE LET g == BaseGlyph(font, ch) IN
       IF g.width = 0 \/ g.height = 0
       THEN SomeBitmap([left |-> 0, top |-> 0, width |-> 0, height |-> 0])
       ELSE SomeBitmap([left |-> g.left * size - Half(stroke_width),
                        top |-> g.top * size + Half(stroke_width),
                        width |-> g.width * size + stroke_width,
                        height |-> g.height * size + stroke_width])

\* Option::unwrap (lib.rs 141, 158): the value, or an unwinding panic.
Unwrap(opt) ==
  IF opt.some THEN [panic |-> FALSE, value |-> opt.value] ELSE [panic |-> TRUE]

glyph_to_bitmap(font, ch, size) == Unwrap(RenderFill(font, ch, size))

glyph_outline_to_bitmap(font, ch, stroke_width, size) ==
  Unwrap(RenderStroke(font, ch, size, stroke_width))

\* bitmap_to_image (lib.rs 161-179): the RGBA image of an alpha bitmap, every
\* pixel carrying the given colour.
bitmap_to_image(bitmap, color) ==
  [width |-> bitmap.width, height |-> bitmap.height, color |-> color]

\* ------------------------------------------------------------------ shaper

\* add_section_to_shaper (lib.rs 394-416) for every section in order
\* (lib.rs 308-316): one cluster per character, tagged with its section index.
RECURSIVE add_section_to_shaper(_, _)
add_section_to_shaper(sections, index) ==
  IF index > Len(sections) THEN <<>>
  ELSE [k \in 1..Len(sections[index].value) |->
          [ch |-> sections[index].value[k], data |-> index]]
       \o add_section_to_shaper(sections, index + 1)

\* glyph_cluster.info.whitespace() == Whitespace::Newline
IsNewline(cluster) == cluster.ch = NL

\* ------------------------------------------------------------------ layout

\* The pushes of lib.rs 340-362 and the advance of lib.rs 364, given the
\* unwrapped bitmaps of the glyph; st is [lines, glyphs, x, panicked].
PushGlyph(st, section, descent, outline_result, fill_result, advance) ==
  IF section.outline # OutlineNone /\ outline_result.panic
  THEN [st EXCEPT !.panicked = TRUE]
  ELSE IF fill_result.panic
  THEN [st EXCEPT !.panicked = TRUE]
  ELSE
    [st EXCEPT
       !.glyphs =
         (IF section.outline # OutlineNone
             /\ outline_result.value.width # 0 /\ outline_result.value.height # 0
          THEN Append(@,
                 [offset_x |-> st.x + outline_result.value.left,
                  offset_y |-> descent - outline_result.value.height
                                 + outline_result.value.top,
                  offset_z |-> OutlineZ,
                  image |-> bitmap_to_image(outline_result.value, section.outline_color)])
          ELSE @)
         \o
         (IF fill_result.value.width # 0 /\ fill_result.value.height # 0
          THEN << [offset_x |-> st.x + fill_result.value.left,
                   offset_y |-> descent - fill_result.value.height
                                  + fill_result.value.top,
                   offset_z |-> FillZ,
                   image |-> bitmap_to_image(fill_result.value, section.color)] >>
          ELSE << >>),
       !.x = @ + advance]

\* Variant for C12: every section is stroked, with the width 2 * scale_factor
\* when it names none.
GlyphStepStrokeAlways(st, cluster, section, font, size, scale_factor, descent) ==
  PushGlyph(st,
            [section EXCEPT !.outline = IF @ = OutlineNone THEN 2 * scale_factor ELSE @],
            descent,
            glyph_outline_to_bitmap(font, cluster.ch,
                (IF section.outline = OutlineNone THEN 2 * scale_factor ELSE section.outline)
                  \div scale_factor, size),
            glyph_to_bitmap(font, cluster.ch, size),
            BaseGlyph(font, cluster.ch).advance * size)

\* The body of the loop over glyph_cluster.glyphs (lib.rs 329-365) for the one
\* glyph of a cluster.
GlyphStep(st, cluster, section, font, size, scale_factor, descent) ==
  PushGlyph(st, section, descent,
            IF section.outline # OutlineNone
            THEN glyph_outline_to_bitmap(font, cluster.ch,
                                         section.outline \div scale_factor, size)
            ELSE [panic |-> FALSE],
            glyph_to_bitmap(font, cluster.ch, size),
            BaseGlyph(font, cluster.ch).advance * size)

\* The line break of lib.rs 323-327.
CloseLine(st) ==
  [st EXCEPT !.lines = Append(@, [glyphs |-> st.glyphs, width |-> st.x]),
             !.glyphs = << >>,
             !.x = 0]

\* The closure given to shaper.shape_with (lib.rs 318-366) for one cluster.
ClusterStep(st, cluster, sections, font, size, scale_factor, descent) ==
  GlyphStep(IF IsNewline(cluster) THEN CloseLine(st) ELSE st,
            cluster, sections[cluster.data], font, size, scale_factor, descent)

\* shaper.shape_with over the cluster stream; a panic unwinds out of the loop.
RECURSIVE ShapeWith(_, _, _, _, _, _, _, _)
ShapeWith(st, clusters, i, sections, font, size, scale_factor, descent) ==
  IF st.panicked \/ i > Len(clusters) THEN st
  ELSE ShapeWith(ClusterStep(st, clusters[i], sections, font, size, scale_factor, descent),
                 clusters, i + 1, sections, font, size, scale_factor, descent)

Max(a, b) == IF a >= b THEN a ELSE b
Min(a, b) == IF a <= b THEN a ELSE b

\* lines.iter().map(|line| line.width).fold(0.0, f32::max)  (lib.rs 371)
RECURSIVE FoldMaxWidth(_, _)
FoldMaxWidth(lines, i) ==
  IF i > Len(lines) THEN 0 ELSE Max(lines[i].width, FoldMaxWidth(lines, i + 1))

\* Variant for C14: Center pads like Right.
PaddingUnhalved(justify, text_width, line_width) ==
  CASE justify = "Left" -> 0
    [] justify = "Center" -> text_width - line_width
    [] justify = "Right" -> text_width - line_width

\* The justification padding of one line (lib.rs 379-383).
Padding(justify, text_width, line_width) ==
  CASE justify = "Left" -> 0
    [] justify = "Center" -> Half(text_width - line_width)
    [] justify = "Right" -> text_width - line_width

\* lines.into_iter().flat_map(|line| line.glyphs).collect()  (lib.rs 391)
RECURSIVE FlatMapGlyphs(_, _)
FlatMapGlyphs(lines, i) ==
  IF i > Len(lines) THEN << >> ELSE lines[i].glyphs \o FlatMapGlyphs(lines, i + 1)

\* Variant for C16: the lines are stacked upwards, the first one lowest.
PlaceLineUpwards(line, i, line_count, justify, text_width, line_height, anchor_offset) ==
  [glyphs |->
     [k \in 1..Len(line.glyphs) |->
        [line.glyphs[k] EXCEPT
           !.offset_x = @ + anchor_offset.x + Padding(justify, text_width, line.width),
           !.offset_y = @ + anchor_offset.y + (i - 1) * line_height]],
   width |-> line.width]

\* The offsets added to every glyph of line i (lib.rs 385-388).
PlaceLine(line, i, line_count, justify, text_width, line_height, anchor_offset) ==
  [glyphs |->
     [k \in 1..Len(line.glyphs) |->
        [line.glyphs[k] EXCEPT
           !.offset_x = @ + anchor_offset.x + Padding(justify, text_width, line.width),
           !.offset_y = @ + anchor_offset.y + (line_count - i) * line_height]],
   width |-> line.width]

\* Variant for C13: the anchor is not read, the box is always centred.
PlaceLinesCentred(lines, justify, anchor, text_width, text_height, line_height) ==
  FlatMapGlyphs(
    [i \in 1..Len(lines) |->
       PlaceLine(lines[i], i, Len(lines), justify, text_width, line_height,
                 [x |-> -Half(text_width), y |-> -Half(text_height)])],
    1)

\* lib.rs 374-391 once text_width and text_height are known.
PlaceLines(lines, justify, anchor, text_width, text_height, line_height) ==
  FlatMapGlyphs(
    [i \in 1..Len(lines) |->
       PlaceLine(lines[i], i, Len(lines), justify, text_width, line_height,
                 [x |-> -Half(anchor.x * text_width) - Half(text_width),
                  y |-> -Half(anchor.y * text_height) - Half(text_height)])],
    1)

\* lib.rs 370-391: measure the text (text_width, text_height) and place the lines.
MeasureLines(lines, justify, anchor, metrics, line_height) ==
  PlaceLines(lines, justify, anchor,
             FoldMaxWidth(lines, 1),
             metrics.descent + metrics.ascent + (Len(lines) - 1) * line_height,
             line_height)

\* lib.rs 367-391: close the last line (lib.rs 367-368), then measure and place.
LayoutLines(shaped, justify, anchor, metrics) ==
  IF shaped.panicked THEN [panic |-> TRUE, glyphs |-> << >>]
  ELSE [panic |-> FALSE,
        glyphs |-> MeasureLines(CloseLine(shaped).lines, justify, anchor, metrics,
                                metrics.descent + metrics.ascent + metrics.leading)]

\* lib.rs 286-366: shape the sections at the scaled size.
ShapeText(sections, font, size, scale_factor, metrics) ==
  ShapeWith([lines |-> << >>, glyphs |-> << >>, x |-> 0, panicked |-> FALSE],
            add_section_to_shaper(sections, 1), 1, sections, font, size,
            scale_factor, metrics.descent)

\* create_glyph_images (lib.rs 270-392) at the shaped size: [panic, glyphs].
CreateAtSize(text, anchor, scale_factor, size) ==
  LayoutLines(ShapeText(text.sections, text.font_style.font, size, scale_factor,
                        Metrics(text.font_style.font, size)),
              text.justify, anchor, Metrics(text.font_style.font, size))

\* create_glyph_images (lib.rs 270-392): the positioned glyph images of a
\* text, or a panic when a glyph bitmap is unwrapped from None.
create_glyph_images(text, anchor, scale_factor) ==
  IF Len(text.sections) = 0 THEN [panic |-> FALSE, glyphs |-> << >>]
  ELSE CreateAtSize(text, anchor, scale_factor, text.font_style.size \div scale_factor)

\* ---------------------------------------------------------------- composer

\* The bounding box loop of compose_glyph_images (lib.rs 424-439).
RECURSIVE MinOffsetX(_, _)
MinOffsetX(glyph_images, i) ==
  IF i = Len(glyph_images) THEN glyph_images[i].offset_x
  ELSE Min(glyph_images[i].offset_x, MinOffsetX(glyph_images, i + 1))

RECURSIVE MinOffsetY(_, _)
MinOffsetY(glyph_images, i) ==
  IF i = Len(glyph_images) THEN glyph_images[i].offset_y
  ELSE Min(glyph_images[i].offset_y, MinOffsetY(glyph_images, i + 1))

\* compose_glyph_images (lib.rs 418-488): the composed atlas of a non-empty
\* group; handle is the identity images.add gives the new image.
compose_glyph_images(handle, glyph_images) ==
  [x |-> MinOffsetX(glyph_images, 1),
   y |-> MinOffsetY(glyph_images, 1),
   z |-> glyph_images[1].offset_z,
   image |-> handle]

\* Variant for C11: no partition, both groups receive every glyph.
RECURSIVE PartitionAll(_, _, _)
PartitionAll(glyph_images, keepFill, i) ==
  IF i > Len(glyph_images) THEN << >>
  ELSE << glyph_images[i] >> \o PartitionAll(glyph_images, keepFill, i + 1)

\* .partition(|glyph| glyph.offset_z == 0.0)  (lib.rs 250-252): the glyphs
\* for which the predicate is keepFill, in order.
RECURSIVE Partition(_, _, _)
Partition(glyph_images, keepFill, i) ==
  IF i > Len(glyph_images) THEN << >>
  ELSE (IF (glyph_images[i].offset_z = FillZ) = keepFill
        THEN << glyph_images[i] >> ELSE << >>)
       \o Partition(glyph_images, keepFill, i + 1)

\* -------------------------------------------------------------- transforms
\* GlobalTransform restricted to affine maps that act on (x, y) by a 2x2
\* integer matrix m = <<m11, m12, m21, m22>> and translate by t = <<x, y, z>>.

\* GlobalTransform::from_translation
from_translation(v) == [m |-> <<1, 0, 0, 1>>, t |-> v]

\* impl Mul<GlobalTransform> for GlobalTransform: (a * b)(p) = a(b(p)).
MulTransform(a, b) ==
  [m |-> <<a.m[1] * b.m[1] + a.m[2] * b.m[3], a.m[1] * b.m[2] + a.m[2] * b.m[4],
           a.m[3] * b.m[1] + a.m[4] * b.m[3], a.m[3] * b.m[2] + a.m[4] * b.m[4]>>,
   t |-> <<a.m[1] * b.t[1] + a.m[2] * b.t[2] + a.t[1],
           a.m[3] * b.t[1] + a.m[4] * b.t[2] + a.t[2],
           a.t[3] + b.t[3]>>]

\* World transforms an entity may carry: a quarter turn about z placed at
\* (5, 0, 5), and a uniform scale by 2 placed at (-3, 3, 7); z is in units
\* of 1/1000 like offset_z.
GlobalTransforms ==
  { [m |-> <<0, -1, 1, 0>>, t |-> <<5, 0, 5000>>],
    [m |-> <<2, 0, 0, 2>>, t |-> <<-3, 3, 7000>>] }

\* -------------------------------------------------------------- components

Section(value, color, outline, outline_color) ==
  [value |-> value, color |-> color, outline |-> outline, outline_color |-> outline_color]

\* OutlinedText values the application gives its entities (lib.rs 88-106).
TextPlain ==
  [sections |-> << Section(<<"A">>, "white", OutlineNone, "none") >>,
   font_style |-> [font |-> "f1", size |-> 4],
   justify |-> "Left"]

TextOutlined ==
  [sections |-> << Section(<<"A", "A", NL>>, "orange", 4, "red"),
                   Section(<<"B", " ">>, "cyan", 4, "blue") >>,
   font_style |-> [font |-> "f2", size |-> 4],
   justify |-> "Center"]

TextUnrenderable ==
  [sections |-> << Section(<<"A", "X">>, "white", OutlineNone, "none") >>,
   font_style |-> [font |-> "f1", size |-> 4],
   justify |-> "Left"]

TextNoSections ==
  [sections |-> << >>,
   font_style |-> [font |-> "f2", size |-> 4],
   justify |-> "Left"]

Texts == {TextPlain, TextOutlined, TextUnrenderable, TextNoSections}

\* The Anchor values the application gives its entities.
Anchors == {AnchorCenter}

\* window.resolution.scale_factor() (lib.rs 221-224).
ScaleFactors == {1, 2}

\* ------------------------------------------------------------------- state

VARIABLES
  text,              \* entity -> its OutlinedText component, or None
  anchor,            \* entity -> its Anchor component, or None
  text_changed,      \* entity -> Ref<OutlinedText>::is_changed() at the next cycle
  anchor_changed,    \* entity -> Ref<Anchor>::is_changed() at the next cycle
  removed,           \* RemovedComponents<OutlinedText> not yet read
  factor_event,      \* a WindowScaleFactorChanged event not yet read
  scale_factor,      \* the primary window's scale factor
  fonts,             \* the handles Assets<OutlinedFont> resolves
  cache,             \* OutlinedGlyphs.cache: entity -> list of composed atlases
  images,            \* the handles of Assets<Image>
  panicked,          \* create_missing_text unwound with a panic
  extracted_sprites, \* ExtractedSprites of the frame being rendered
  global_transform,  \* during an extraction: the GlobalTransform of each entity
                     \* that has an OutlinedText or a cache entry
  unresolved,        \* the entities the last cycle left without an entry
                     \* because their font did not resolve
  last,              \* the previous step, and what the cache was before it
  ops,               \* the application and environment steps taken so far
  bench              \* the layout and composition of one text taken alone:
                     \* its input, then what each function returned for it

vars == <<text, anchor, text_changed, anchor_changed, removed, factor_event,
          scale_factor, fonts, cache, images, panicked, extracted_sprites,
          global_transform, unresolved, last, ops, bench>>

world == <<text, anchor, text_changed, anchor_changed, removed, factor_event,
           scale_factor, fonts>>

NoStep == [op |-> "none"]

NoTransforms == [e \in Entities |-> None]

NoBench == [stage |-> "none"]

\* OutlinedTextPlugin::build (lib.rs 528-541): an empty cache; no entity has
\* been spawned and no font loaded yet.
Plugin ==
  /\ text = [e \in Entities |-> None]
  /\ anchor = [e \in Entities |-> None]
  /\ text_changed = [e \in Entities |-> FALSE]
  /\ anchor_changed = [e \in Entities |-> FALSE]
  /\ removed = {}
  /\ factor_event = FALSE
  /\ scale_factor = 1
  /\ fonts = {}
  /\ cache = << >>
  /\ images = {}
  /\ panicked = FALSE
  /\ extracted_sprites = {}
  /\ global_transform = NoTransforms
  /\ unresolved = {}
  /\ last = NoStep
  /\ ops = 0

Init == Plugin /\ bench = NoBench

\* The main world runs between two extractions: the previous frame has been
\* rendered and the process has not panicked.
MainWorld == ~panicked /\ last.op # "extract"

Untouched ==
  UNCHANGED <<cache, images, panicked, extracted_sprites, global_transform, unresolved,
              bench>>

\* A step of the application or its environment, counted against MaxOps.
Operation == MainWorld /\ ops < MaxOps /\ ops' = ops + 1

\* ------------------------------------------------- the application's steps

\* commands.spawn(OutlinedText2dBundle { text, text_anchor, .. })
\* (lib.rs 126-135, examples/main.rs 32-62).
SpawnBundle(e, t, a) ==
  /\ Operation
  /\ text[e] = None /\ anchor[e] = None
  /\ text' = [text EXCEPT ![e] = t]
  /\ anchor' = [anchor EXCEPT ![e] = a]
  /\ text_changed' = [text_changed EXCEPT ![e] = TRUE]
  /\ anchor_changed' = [anchor_changed EXCEPT ![e] = TRUE]
  /\ last' = NoStep
  /\ UNCHANGED <<removed, factor_event, scale_factor, fonts>>
  /\ Untouched

\* entity.insert(text) on an entity without an OutlinedText.
InsertText(e, t) ==
  /\ Operation
  /\ text[e] = None
  /\ text' = [text EXCEPT ![e] = t]
  /\ text_changed' = [text_changed EXCEPT ![e] = TRUE]
  /\ last' = NoStep
  /\ UNCHANGED <<anchor, anchor_changed, removed, factor_event, scale_factor, fonts>>
  /\ Untouched

\* A mutable access to the component (examples/main.rs 146-151): the value
\* may or may not differ, the change tick is set either way.
MutateText(e, t) ==
  /\ Operation
  /\ text[e] # None
  /\ text' = [text EXCEPT ![e] = t]
  /\ text_changed' = [text_changed EXCEPT ![e] = TRUE]
  /\ last' = NoStep
  /\ UNCHANGED <<anchor, anchor_changed, removed, factor_event, scale_factor, fonts>>
  /\ Untouched

\* entity.remove::<OutlinedText>()
RemoveText(e) ==
  /\ Operation
  /\ text[e] # None
  /\ text' = [text EXCEPT ![e] = None]
  /\ text_changed' = [text_changed EXCEPT ![e] = FALSE]
  /\ removed' = removed \cup {e}
  /\ last' = NoStep
  /\ UNCHANGED <<anchor, anchor_changed, factor_event, scale_factor, fonts>>
  /\ Untouched

\* Inserting or mutating the Anchor component.
SetAnchor(e, a) ==
  /\ Operation
  /\ anchor' = [anchor EXCEPT ![e] = a]
  /\ anchor_changed' = [anchor_changed EXCEPT ![e] = TRUE]
  /\ last' = NoStep
  /\ UNCHANGED <<text, text_changed, removed, factor_event, scale_factor, fonts>>
  /\ Untouched

\* entity.remove::<Anchor>()
RemoveAnchor(e) ==
  /\ Operation
  /\ anchor[e] # None
  /\ anchor' = [anchor EXCEPT ![e] = None]
  /\ anchor_changed' = [anchor_changed EXCEPT ![e] = FALSE]
  /\ last' = NoStep
  /\ UNCHANGED <<text, text_changed, removed, factor_event, scale_factor, fonts>>
  /\ Untouched

\* OutlinedFontLoader::load returned Ok: the handle resolves from now on.
LoadFont(f) ==
  /\ Operation
  /\ f \notin fonts
  /\ fonts' = fonts \cup {f}
  /\ last' = NoStep
  /\ UNCHANGED <<text, anchor, text_changed, anchor_changed, removed, factor_event,
                 scale_factor>>
  /\ Untouched

\* The window moved to a display of another scale factor.
ScaleFactorChanged(s) ==
  /\ Operation
  /\ s # scale_factor
  /\ scale_factor' = s
  /\ factor_event' = TRUE
  /\ last' = NoStep
  /\ UNCHANGED <<text, anchor, text_changed, anchor_changed, removed, fonts>>
  /\ Untouched

\* ------------------------------------------------------ create_missing_text

\* images.add(image) (lib.rs 486): a handle no image had before.
NewHandle(store) == Cardinality(store) + 1

\* HashMap::insert and HashMap::remove on OutlinedGlyphs.cache.
CacheInsert(c, entity, glyph_images) ==
  [x \in DOMAIN c \cup {entity} |-> IF x = entity THEN glyph_images ELSE c[x]]

\* Variant for C3: the removal loop of lib.rs 217-219 left out.
CacheKeepRemoved(c, gone) == c

\* Variant for C10: any removal empties the whole map.
CacheClearOnRemoval(c, gone) == IF gone = {} THEN c ELSE [x \in {} |-> << >>]

CacheRemove(c, gone) == [x \in DOMAIN c \ gone |-> c[x]]

\* The iteration orders of text_query (lib.rs 208, 229): every entity holding
\* both an OutlinedText and an Anchor, once, in an order the ECS chooses.
InQuery(entity) == text[entity] # None /\ anchor[entity] # None

QueryOrders ==
  LET matched == {e \in Entities : InQuery(e)}
  IN {order \in [1..Cardinality(matched) -> matched] :
        \A i, j \in DOMAIN order : i # j => order[i] # order[j]}

\* Variant for C4: no fast path, every entity is recomputed in every cycle.
UpToDateNever(entity, factor_changed, c) == FALSE

\* The condition of the `continue` at lib.rs 230-236.
UpToDate(entity, factor_changed, c) ==
  /\ ~factor_changed
  /\ ~text_changed[entity]
  /\ ~anchor_changed[entity]
  /\ entity \in DOMAIN c

\* fonts.get(handle) is Some (lib.rs 238-240).
FontResolves(entity) == text[entity].font_style.font \in fonts

\* lib.rs 260-263: compose the outline group, if any, after the fill group.
PushOutlines(afterFill, outlines) ==
  IF Len(outlines) # 0
  THEN [images |-> afterFill.images \cup {NewHandle(afterFill.images)},
        list |-> Append(afterFill.list,
                        compose_glyph_images(NewHandle(afterFill.images), outlines))]
  ELSE afterFill

\* lib.rs 253-258: compose the fill group, if any.
PushGlyphs(store, glyphs) ==
  IF Len(glyphs) # 0
  THEN [images |-> store \cup {NewHandle(store)},
        list |-> << compose_glyph_images(NewHandle(store), glyphs) >>]
  ELSE [images |-> store, list |-> << >>]

\* lib.rs 250-263: partition by layer and compose each non-empty group.
ComposeGroups(store, glyph_images) ==
  PushOutlines(PushGlyphs(store, Partition(glyph_images, TRUE, 1)),
               Partition(glyph_images, FALSE, 1))

\* lib.rs 265: outlined_glyphs.cache.insert(entity, glyph_images).
StoreEntry(st, entity, composed) ==
  [st EXCEPT !.images = composed.images,
             !.cache = CacheInsert(@, entity, composed.list),
             !.inserted = @ \cup {entity},
             !.visited = @ \cup {entity}]

\* lib.rs 241-265 for an entity whose font resolved: a panic of
\* create_glyph_images unwinds out of the system.
Recompute(st, entity, result) ==
  IF result.panic
  THEN [st EXCEPT !.panicked = TRUE]
  ELSE StoreEntry(st, entity, ComposeGroups(st.images, result.glyphs))

\* Variant for C6: an unresolved font drops the entry the entity had.
SkipUnresolvedEvict(st, entity) ==
  [st EXCEPT !.cache = CacheRemove(@, {entity}),
             !.unresolved = @ \cup {entity}, !.visited = @ \cup {entity}]

\* Variant for C7: an unresolved font stores an entry without atlases.
SkipUnresolvedStoreEmpty(st, entity) ==
  [st EXCEPT !.cache = CacheInsert(@, entity, << >>),
             !.unresolved = @ \cup {entity}, !.visited = @ \cup {entity}]

\* The entity's font did not resolve (the None arm of lib.rs 240): nothing
\* is done for it.
SkipUnresolved(st, entity) ==
  [st EXCEPT !.unresolved = @ \cup {entity}, !.visited = @ \cup {entity}]

\* One iteration of the loop at lib.rs 229-267; st is the running
\* [cache, images, panicked] and the record of the loop: the entities whose
\* iteration began, those whose iteration ended (visited), those given a new
\* entry (inserted) and those passed over for an unresolved font.
LoopBody(st, entity, factor_changed) ==
  IF UpToDate(entity, factor_changed, st.cache)
  THEN [st EXCEPT !.visited = @ \cup {entity}]
  ELSE IF FontResolves(entity)
  THEN Recompute(st, entity,
                 create_glyph_images(text[entity], anchor[entity], scale_factor))
  ELSE SkipUnresolved(st, entity)

RECURSIVE QueryLoop(_, _, _, _)
QueryLoop(st, order, i, factor_changed) ==
  IF st.panicked \/ i > Len(order) THEN st
  ELSE QueryLoop(LoopBody([st EXCEPT !.begun = @ \cup {order[i]}], order[i],
                          factor_changed),
                 order, i + 1, factor_changed)

\* The state create_missing_text leaves, done being the outcome of its loop
\* over the query in the given order.
Commit(done, order) ==
  /\ Cardinality(done.images) <= MaxImages
  /\ cache' = done.cache
  /\ images' = done.images
  /\ panicked' = done.panicked
  /\ unresolved' = {e \in done.unresolved : e \notin DOMAIN done.cache}
  /\ last' = [op |-> "cycle", cache |-> cache, images |-> images,
              text_changed |-> text_changed, anchor_changed |-> anchor_changed,
              factor_event |-> factor_event, removed |-> removed,
              unresolved |-> unresolved,
              order |-> order, begun |-> done.begun, visited |-> done.visited,
              inserted |-> done.inserted]

\* create_missing_text (lib.rs 206-268), run once per frame in PostUpdate.
create_missing_text ==
  /\ MainWorld
  /\ \E order \in QueryOrders :
       Commit(QueryLoop([cache |-> CacheRemove(cache, removed), images |-> images,
                         panicked |-> FALSE, begun |-> {}, visited |-> {},
                         inserted |-> {}, unresolved |-> {}],
                        order, 1, factor_event),
              order)
  /\ text_changed' = [e \in Entities |-> FALSE]
  /\ anchor_changed' = [e \in Entities |-> FALSE]
  /\ removed' = {}
  /\ factor_event' = FALSE
  /\ UNCHANGED <<text, anchor, scale_factor, fonts, extracted_sprites, global_transform, ops,
                 bench>>

\* ---------------------------------------------------- extract_outlined_text

\* Variant for C9: the product in the order of src/main.rs 312,
\* transform * *global_transform (local * world).
ExtractedSpriteLocalTimesWorld(original_entity, transform, index, glyph_image) ==
  [entity |-> <<original_entity, index>>,
   transform |-> MulTransform(
                   from_translation(<<glyph_image.x, glyph_image.y, glyph_image.z>>),
                   transform),
   image_handle_id |-> glyph_image.image,
   anchor |-> AnchorBottomLeft,
   original_entity |-> original_entity]

\* The sprite inserted at lib.rs 507-520 for one atlas of an entity.
ExtractedSprite(original_entity, transform, index, glyph_image) ==
  [entity |-> <<original_entity, index>>,
   transform |-> MulTransform(transform,
                   from_translation(<<glyph_image.x, glyph_image.y, glyph_image.z>>)),
   image_handle_id |-> glyph_image.image,
   anchor |-> AnchorBottomLeft,
   original_entity |-> original_entity]

\* The entities matched by Query<(Entity, &GlobalTransform), With<OutlinedText>>
\* (lib.rs 493) when transforms gives each entity's GlobalTransform component,
\* None for an entity without one.
ExtractQuery(transforms) ==
  {e \in Entities : text[e] # None /\ transforms[e] # None}

\* The sprites of one entity of the query (lib.rs 497-522).
SpritesOf(original_entity, transform) ==
  IF original_entity \in DOMAIN cache
  THEN { ExtractedSprite(original_entity, transform, i, cache[original_entity][i]) :
           i \in 1..Len(cache[original_entity]) }
  ELSE {}

\* extract_outlined_text (lib.rs 490-524), after ExtractSprites has cleared
\* the frame's sprites.
extract_outlined_text(transforms) ==
  /\ MainWorld
  /\ extracted_sprites' =
       UNION { SpritesOf(e, transforms[e]) : e \in ExtractQuery(transforms) }
  /\ global_transform' =
       [e \in Entities |->
          IF text[e] # None \/ e \in DOMAIN cache THEN transforms[e] ELSE None]
  /\ last' = [op |-> "extract", cache |-> cache]
  /\ UNCHANGED world
  /\ UNCHANGED <<cache, images, panicked, unresolved, ops, bench>>

\* The render world draws the frame; the next frame's main world runs.
RenderFrame ==
  /\ ~panicked
  /\ last.op = "extract"
  /\ extracted_sprites' = {}
  /\ global_transform' = NoTransforms
  /\ last' = NoStep
  /\ UNCHANGED world
  /\ UNCHANGED <<cache, images, panicked, unresolved, ops, bench>>

\* ------------------------------------------------------------ specification

Next ==
  \/ \E e \in Entities, t \in Texts, a \in Anchors : SpawnBundle(e, t, a)
  \/ \E e \in Entities, t \in Texts : InsertText(e, t)
  \/ \E e \in Entities, t \in Texts : MutateText(e, t)
  \/ \E e \in Entities : RemoveText(e)
  \/ \E e \in Entities, a \in Anchors : SetAnchor(e, a)
  \/ \E e \in Entities : RemoveAnchor(e)
  \/ \E f \in FontHandles : LoadFont(f)
  \/ \E s \in ScaleFactors : ScaleFactorChanged(s)
  \/ create_missing_text
  \/ \E transforms \in [Entities -> GlobalTransforms \cup {None}] :
       extract_outlined_text(transforms)
  \/ RenderFrame

Spec == Init /\ [][Next]_vars

\* ------------------------------------ layout and composition taken alone
\* create_glyph_images and compose_glyph_images are functions of their
\* arguments: the specification below applies them to one input at a time and
\* keeps what they return in bench.

\* Anchor::TopRight, and Anchor::Custom(Vec2::new(-1.0, -1.0)) and
\* Anchor::Custom(Vec2::new(1.0, 1.0)), as_vec() in units of 1/2.
AnchorTopRight == [x |-> 1, y |-> 1]
AnchorCustomMin == [x |-> -2, y |-> -2]
AnchorCustomMax == [x |-> 2, y |-> 2]

BenchAnchors ==
  {AnchorBottomLeft, AnchorCenter, AnchorTopRight, AnchorCustomMin, AnchorCustomMax}

\* Section lists: two lines without outline; an outlined section followed by
\* a plain one that opens a second line; three outlined lines, the middle one
\* empty; a single glyph.
BenchSections ==
  { << Section(<<"A", "A", NL, "B">>, "white", OutlineNone, "none") >>,
    << Section(<<"A", "B">>, "orange", 8, "red"),
       Section(<<NL, "A", " ">>, "cyan", OutlineNone, "none") >>,
    << Section(<<"B", NL, NL, "A", "A">>, "white", 8, "red") >>,
    << Section(<<"A">>, "white", OutlineNone, "none") >> }

BenchTexts ==
  { [sections |-> sections, font_style |-> [font |-> font, size |-> 4], justify |-> justify] :
      sections \in BenchSections, font \in FontHandles, justify \in Justify }

\* Offsets of the composer are f32: they are kept in units of 1/Fine pixel.
Fine == 4

\* Positioned bitmaps given to compose_glyph_images directly: offsets in
\* units of 1/Fine, integer bitmap sizes.
BenchMembers(color) ==
  { [offset_x |-> x, offset_y |-> y, offset_z |-> FillZ,
     image |-> [width |-> w, height |-> h, color |-> color]] :
      x \in {0, 1, 2, 3, 6}, y \in {0, 2, 5}, w \in {1, 2}, h \in {1, 2} }

BenchGroups ==
  { <<first>> : first \in BenchMembers("first") }
    \cup { <<first, second>> :
             first \in BenchMembers("first"), second \in BenchMembers("second") }

\* The lines as they stand at lib.rs 368, glyph offsets still local to the line.
ShapedLines(t, factor) ==
  CloseLine(ShapeText(t.sections, t.font_style.font, t.font_style.size \div factor, factor,
                      Metrics(t.font_style.font, t.font_style.size \div factor))).lines

\* glyph offsets in units of 1/Fine.
ToFine(glyph_images) ==
  [i \in 1..Len(glyph_images) |->
     [glyph_images[i] EXCEPT !.offset_x = @ * Fine, !.offset_y = @ * Fine]]

\* Variant for C19: the buffer size is truncated instead of rounded up.
FloorFine(v) == v \div Fine

\* f32::ceil and f32::round (half away from zero) of a non-negative value
\* given in units of 1/Fine, as u32.
CeilFine(v) == (v + Fine - 1) \div Fine

RoundFine(v) == (2 * v + Fine) \div (2 * Fine)

\* The alpha the rasterizer wrote at (sx, sy) of a bitmap (bitmap.data,
\* lib.rs 171-175): the bitmaps wider than one pixel have an uncovered pixel
\* in their first row.
BitmapAlpha(image, sx, sy) == IF image.width > 1 /\ sx = 0 /\ sy = 0 THEN 0 ELSE 255

\* The RGBA pixel of bitmap_to_image(bitmap, color) at (sx, sy).
SourcePixel(image, sx, sy) == [color |-> image.color, alpha |-> BitmapAlpha(image, sx, sy)]

\* A pixel of vec![0; ..] (lib.rs 444).
Transparent == [color |-> "zero", alpha |-> 0]

\* x_max and y_max of the bounding box loop (lib.rs 429-439).
RECURSIVE MaxRight(_, _)
MaxRight(glyph_images, i) ==
  IF i = Len(glyph_images)
  THEN glyph_images[i].offset_x + glyph_images[i].image.width * Fine
  ELSE Max(glyph_images[i].offset_x + glyph_images[i].image.width * Fine,
           MaxRight(glyph_images, i + 1))

RECURSIVE MaxTop(_, _)
MaxTop(glyph_images, i) ==
  IF i = Len(glyph_images)
  THEN glyph_images[i].offset_y + glyph_images[i].image.height * Fine
  ELSE Max(glyph_images[i].offset_y + glyph_images[i].image.height * Fine,
           MaxTop(glyph_images, i + 1))

\* lib.rs 441-442 with the box of lib.rs 424-439.
BoundingBox(glyph_images) ==
  [x_min |-> MinOffsetX(glyph_images, 1),
   y_min |-> MinOffsetY(glyph_images, 1),
   total_width |-> CeilFine(MaxRight(glyph_images, 1) - MinOffsetX(glyph_images, 1)),
   total_height |-> CeilFine(MaxTop(glyph_images, 1) - MinOffsetY(glyph_images, 1))]

\* dest_x and dest_y of one member (lib.rs 450-451).  The subtraction and the
\* index arithmetic after it are in u32: a build with overflow checks panics
\* when the subtraction goes below zero, a build without them wraps modulo
\* 2^32, where the index of lib.rs 456-457 is the integer computed here when
\* that is not negative and lies beyond any buffer when it is.
DestX(glyph, box) == RoundFine(glyph.offset_x - box.x_min)
DestY(glyph, box) ==
  box.total_height - glyph.image.height - RoundFine(glyph.offset_y - box.y_min)

\* The u32 subtraction of lib.rs 451 goes below zero for some member.
Underflows(glyph_images, box) ==
  \E i \in 1..Len(glyph_images) :
    box.total_height
      < glyph_images[i].image.height + RoundFine(glyph_images[i].offset_y - box.y_min)

\* dest_index / 4 of lib.rs 456-457.
DestIndex(glyph, box, sx, sy) ==
  (DestY(glyph, box) + sy) * box.total_width + DestX(glyph, box) + sx

\* Some copied pixel has a destination index outside the buffer (lib.rs 461).
OutOfRange(glyph_images, box) ==
  \E i \in 1..Len(glyph_images) :
    \E sx \in 0..(glyph_images[i].image.width - 1), sy \in 0..(glyph_images[i].image.height - 1) :
      /\ BitmapAlpha(glyph_images[i].image, sx, sy) # 0
      /\ \/ DestIndex(glyph_images[i], box, sx, sy) < 0
         \/ DestIndex(glyph_images[i], box, sx, sy) >= box.total_width * box.total_height

\* Variant for C17: every source pixel is copied, whatever its alpha.
CopiedRowsAnyAlpha(glyph, box, index) ==
  { sy \in 0..(glyph.image.height - 1) :
      index - DestIndex(glyph, box, 0, sy) \in 0..(glyph.image.width - 1) }

\* The rows sy of a member whose pixel (index - row start, sy) exists, has
\* non-zero alpha and is copied to the destination index (lib.rs 453-463).
CopiedRows(glyph, box, index) ==
  { sy \in 0..(glyph.image.height - 1) :
      /\ index - DestIndex(glyph, box, 0, sy) \in 0..(glyph.image.width - 1)
      /\ BitmapAlpha(glyph.image, index - DestIndex(glyph, box, 0, sy), sy) # 0 }

\* The largest element of a non-empty set of naturals.
MaxOf(S) == CHOOSE m \in S : \A o \in S : o <= m

\* The destination pixel at index after one member was copied over before.
CopyMember(before, glyph, box, index, rows) ==
  IF rows = {} THEN before
  ELSE SourcePixel(glyph.image, index - DestIndex(glyph, box, 0, MaxOf(rows)), MaxOf(rows))

\* The destination pixel at index after the first n members were copied
\* (the loop of lib.rs 446-465).
RECURSIVE PixelAfter(_, _, _, _)
PixelAfter(glyph_images, n, box, index) ==
  IF n = 0 THEN Transparent
  ELSE CopyMember(PixelAfter(glyph_images, n - 1, box, index), glyph_images[n], box, index,
                  CopiedRows(glyph_images[n], box, index))

\* compose_glyph_images (lib.rs 418-488) with the image it builds: origin,
\* size and pixels, and whether the u32 subtraction underflowed or a copy
\* fell outside the buffer.
ComposeAtlas(glyph_images, box) ==
  [x |-> box.x_min, y |-> box.y_min, z |-> glyph_images[1].offset_z,
   total_width |-> box.total_width, total_height |-> box.total_height,
   underflow |-> Underflows(glyph_images, box),
   out_of_range |-> OutOfRange(glyph_images, box),
   data |-> [index \in 0..(box.total_width * box.total_height - 1) |->
               PixelAfter(glyph_images, Len(glyph_images), box, index)]]

BenchInit ==
  /\ Plugin
  /\ bench \in { [stage |-> "input", text |-> t, anchor |-> a, scale_factor |-> factor] :
                   t \in BenchTexts, a \in BenchAnchors, factor \in ScaleFactors }
             \cup { [stage |-> "group", group |-> group] : group \in BenchGroups }

\* create_glyph_images(.., text, anchor, font, scale_factor)
Layout ==
  /\ bench.stage = "input"
  /\ bench' = [stage |-> "laid", text |-> bench.text, anchor |-> bench.anchor,
               scale_factor |-> bench.scale_factor,
               lines |-> ShapedLines(bench.text, bench.scale_factor),
               result |-> create_glyph_images(bench.text, bench.anchor, bench.scale_factor)]
  /\ UNCHANGED <<world, cache, images, panicked, extracted_sprites, global_transform,
                 unresolved, last, ops>>

Composed(group) ==
  /\ bench' = [stage |-> "composed", group |-> group,
               atlas |-> ComposeAtlas(group, BoundingBox(group))]
  /\ UNCHANGED <<world, cache, images, panicked, extracted_sprites, global_transform,
                 unresolved, last, ops>>

\* compose_glyph_images on a group of the partition (lib.rs 250-263).
ComposeLaid(keepFill) ==
  /\ bench.stage = "laid"
  /\ ~bench.result.panic
  /\ Partition(bench.result.glyphs, keepFill, 1) # << >>
  /\ Composed(ToFine(Partition(bench.result.glyphs, keepFill, 1)))

\* compose_glyph_images on a group of positioned bitmaps.
ComposeGroup ==
  /\ bench.stage = "group"
  /\ Composed(bench.group)

BenchNext ==
  \/ Layout
  \/ \E keepFill \in BOOLEAN : ComposeLaid(keepFill)
  \/ ComposeGroup

BenchSpec == BenchInit /\ [][BenchNext]_vars

\* ================================================================== claims
\* What the formulas read: the state after a step, and in `last` the step and
\* the cache, image store, change flags and events as they were before it.

AfterCycle == last.op = "cycle"
AfterExtract == last.op = "extract"

HadEntry(e) == e \in DOMAIN last.cache
HasEntry(e) == e \in DOMAIN cache

\* The image identities an atlas list holds.
ImageIds(list) == {list[i].image : i \in 1..Len(list)}

\* The images the step added to the store.
NewImages == images \ last.images

\* The trigger of a recompute as the claims word it: StyledText or Anchor
\* changed since the previous cycle, a scale factor event arrived, or the
\* cache had no entry.
Triggered(e) ==
  \/ last.text_changed[e]
  \/ last.anchor_changed[e]
  \/ last.factor_event
  \/ ~HadEntry(e)

\* The cycle gave e a new entry whose atlases are all newly composed images.
Replaced(e) ==
  /\ e \in last.inserted
  /\ HasEntry(e)
  /\ ImageIds(cache[e]) \subseteq NewImages

\* The cycle left e's entry as it was.
EntryUntouched(e) ==
  /\ HasEntry(e) <=> HadEntry(e)
  /\ HadEntry(e) => cache[e] = last.cache[e]
  /\ e \notin last.inserted

\* Every image the cycle added belongs to a new entry of another entity.
NoImageFor(e) ==
  NewImages \subseteq UNION {ImageIds(cache[o]) : o \in last.inserted \ {e}}

\* e is due for a recompute but its font handle does not resolve.
DueUnresolved(e) == InQuery(e) /\ Triggered(e) /\ ~FontResolves(e)

\* The iteration of e ended normally and the loop went on to the next entity.
LoopWentOn(e) ==
  /\ e \in last.begun => e \in last.visited
  /\ \A i \in DOMAIN last.order :
       (last.order[i] = e /\ e \in last.visited /\ i < Len(last.order))
         => last.order[i + 1] \in last.begun

\* The text holds a character the scaler cannot render.
HasUnrenderable(t) ==
  \E i \in DOMAIN t.sections :
    \E k \in DOMAIN t.sections[i].value :
      RenderFails(t.font_style.font, t.sections[i].value[k])

\* ---------------------------------------------------------------------- C1
\* C1: in each recompute cycle an entity that has StyledText and Anchor and
\* whose font resolves gets its cache entry replaced by freshly composed
\* atlases if and only if its StyledText or Anchor changed since the previous
\* cycle, a scale factor event arrived, or the cache had no entry for it.
C1_ReplacedIffTriggered ==
  AfterCycle =>
    \A e \in Entities :
      (InQuery(e) /\ FontResolves(e)) => (Replaced(e) <=> Triggered(e))

\* ---------------------------------------------------------------------- C2
\* C2: a scale factor event forces the recomputation of every cached entity
\* on the next cycle, whatever its change flags, and the atlas image
\* identities stored after the cycle differ from the ones stored before it.
\* Stated for the cached entities the cycle can serve: those with StyledText,
\* Anchor and a font that resolves, whose entry holds atlases.
C2_ScaleEventRecomputesEveryCached ==
  (AfterCycle /\ last.factor_event) =>
    \A e \in Entities :
      (HadEntry(e) /\ Len(last.cache[e]) > 0 /\ InQuery(e) /\ FontResolves(e)) =>
        /\ e \in last.inserted
        /\ HasEntry(e)
        /\ ImageIds(cache[e]) \cap ImageIds(last.cache[e]) = {}

\* ---------------------------------------------------------------------- C3
\* C3: after an entity's StyledText is removed, the next recompute cycle
\* deletes its cache entry, releasing the handles of its composed images (an
\* entry it holds afterwards is a new one, of a StyledText attached again),
\* and every extraction pass emits no sprite for an entity without StyledText.
C3_RemovalDeletesEntryAndSilences ==
  /\ AfterCycle =>
       \A e \in last.removed :
         /\ text[e] = None => ~HasEntry(e)
         /\ HasEntry(e) => e \in last.inserted
         /\ HadEntry(e) =>
              \A o \in DOMAIN cache :
                ImageIds(last.cache[e]) \cap ImageIds(cache[o]) = {}
  /\ AfterExtract =>
       \A e \in Entities :
         text[e] = None => \A sprite \in extracted_sprites : sprite.original_entity # e

\* The cycle after a removal deleted a non-empty entry.
C3_Witness ==
  /\ AfterCycle
  /\ \E e \in last.removed :
       HadEntry(e) /\ Len(last.cache[e]) > 0 /\ text[e] = None /\ ~HasEntry(e)

\* An extraction ran between the removal and the next cycle: the entry is
\* still cached, the entity has a GlobalTransform, and nothing is emitted.
C3_WitnessExtract ==
  /\ AfterExtract
  /\ \E e \in removed :
       /\ text[e] = None /\ HasEntry(e) /\ Len(cache[e]) > 0
       /\ global_transform[e] # None

\* ---------------------------------------------------------------------- C4
\* C4: in a cycle with no scale factor event, an entity whose StyledText and
\* Anchor are unchanged since the previous cycle and which has a cache entry
\* keeps that entry exactly as it was, and no image is added on its behalf.
C4_UnchangedEntityKeepsEntry ==
  AfterCycle =>
    \A e \in Entities :
      (/\ InQuery(e)
       /\ ~last.factor_event
       /\ ~last.text_changed[e]
       /\ ~last.anchor_changed[e]
       /\ HadEntry(e))
        => (EntryUntouched(e) /\ NoImageFor(e))

\* An unchanged cached entity was passed over in a cycle that recomputed
\* another entity.
C4_Witness ==
  /\ AfterCycle /\ ~last.factor_event
  /\ \E e \in Entities :
       /\ InQuery(e) /\ ~last.text_changed[e] /\ ~last.anchor_changed[e]
       /\ HadEntry(e) /\ Len(cache[e]) > 0
       /\ e \in last.visited
       /\ NewImages # {}

\* ---------------------------------------------------------------------- C5
\* C5: an entity with StyledText and Anchor that has no cache entry because
\* its font did not resolve is attempted again on every later cycle, so at
\* the first cycle at which its font resolves it obtains a cache entry.
C5_UnresolvedEntityGetsEntryOnceFontResolves ==
  AfterCycle =>
    \A e \in last.unresolved :
      (InQuery(e) /\ ~HadEntry(e) /\ FontResolves(e)) => HasEntry(e)

\* ---------------------------------------------------------------------- C6
\* C6, as stated: when an entity is due for a recompute but its font does not
\* resolve, the cycle leaves the cache exactly as it was for that entity,
\* adds no image for it and reports no error, and the loop goes on to the
\* other entities.
C6_UnresolvedLeavesCacheAsItWas ==
  AfterCycle =>
    \A e \in Entities :
      DueUnresolved(e) => (EntryUntouched(e) /\ NoImageFor(e) /\ LoopWentOn(e))

\* C6, amended: as above, except that an entity whose StyledText was removed
\* and attached again since the previous cycle has lost its entry to the
\* removal handling at the start of the cycle.
C6_UnresolvedCreatesAndModifiesNothing ==
  AfterCycle =>
    \A e \in Entities :
      DueUnresolved(e) =>
        /\ IF e \in last.removed
           THEN ~HasEntry(e) /\ e \notin last.inserted
           ELSE EntryUntouched(e)
        /\ NoImageFor(e)
        /\ LoopWentOn(e)

\* An entity with a non-empty entry was passed over for an unresolved font in
\* a cycle that recomputed another entity.
C6_Witness ==
  /\ AfterCycle
  /\ \E e \in Entities :
       /\ DueUnresolved(e) /\ e \in last.visited
       /\ HadEntry(e) /\ Len(last.cache[e]) > 0
       /\ last.inserted # {} /\ NewImages # {}

\* ---------------------------------------------------------------------- C7
\* C7, as stated: after a cycle in which an entity was due for a recompute
\* and its font did not resolve, the cache holds no entry for that entity,
\* whatever it held before.
C7_UnresolvedLeavesNoEntry ==
  AfterCycle =>
    \A e \in Entities : DueUnresolved(e) => ~HasEntry(e)

\* C7, amended: after such a cycle the cache holds an entry for the entity
\* exactly if it held one before and no removal of its StyledText was pending,
\* and that entry is the earlier one, unchanged.
C7_UnresolvedKeepsEarlierEntry ==
  AfterCycle =>
    \A e \in Entities :
      DueUnresolved(e) =>
        /\ HasEntry(e) <=> (HadEntry(e) /\ e \notin last.removed)
        /\ HasEntry(e) => cache[e] = last.cache[e]

\* An entity whose StyledText changed to a font that does not resolve kept the
\* entry of its earlier text.
C7_Witness ==
  /\ AfterCycle
  /\ \E e \in Entities :
       /\ DueUnresolved(e) /\ last.text_changed[e] /\ e \in last.visited
       /\ HasEntry(e) /\ Len(cache[e]) > 0

\* ---------------------------------------------------------------------- C8
\* C8: if the rasterizer cannot produce a bitmap for one glyph during a
\* recompute, only that glyph is skipped: the recompute completes, the other
\* glyphs are composed, the entity's entry is written and the other entities
\* of the cycle are processed; the recompute never aborts.
C8_UnrenderableGlyphIsSkipped ==
  AfterCycle =>
    \A e \in Entities :
      (InQuery(e) /\ Triggered(e) /\ FontResolves(e) /\ HasUnrenderable(text[e])
       /\ e \in last.begun)
        => /\ ~panicked
           /\ Replaced(e)
           /\ Len(cache[e]) > 0
           /\ last.visited = {o \in Entities : InQuery(o)}

\* ---------------------------------------------------------------------- C9
\* The transform world * local for the local translation (x, y, z): the
\* translation is carried through the world transform's matrix.
WorldTimesLocal(w, x, y, z) ==
  [m |-> w.m,
   t |-> <<w.m[1] * x + w.m[2] * y + w.t[1],
           w.m[3] * x + w.m[4] * y + w.t[2],
           w.t[3] + z>>]

\* The transform local * world: the translation is added in world axes.
LocalTimesWorld(w, x, y, z) ==
  [m |-> w.m, t |-> <<w.t[1] + x, w.t[2] + y, w.t[3] + z>>]

SpritesFor(e) == {sprite \in extracted_sprites : sprite.original_entity = e}

C10_EntryLivesAsLongAsStyledText ==
  AfterCycle =>
    /\ \A e \in DOMAIN cache : text[e] # None
    /\ \A e \in DOMAIN last.cache :
         /\ ~HasEntry(e) => e \in last.removed
         /\ e \in last.removed => (~HasEntry(e) \/ e \in last.inserted)
         /\ e \notin last.removed =>
              \/ cache[e] = last.cache[e] /\ e \notin last.inserted
              \/ last.text_changed[e] \/ last.anchor_changed[e] \/ last.factor_event

\* A cycle deleted the entry of an entity whose StyledText was removed and
\* kept the entry of another entity.
C10_Witness ==
  /\ AfterCycle
  /\ \E e, o \in Entities :
       /\ e # o
       /\ e \in last.removed /\ HadEntry(e) /\ ~HasEntry(e)
       /\ HadEntry(o) /\ HasEntry(o) /\ cache[o] = last.cache[o]
       /\ Len(cache[o]) > 0

\* --------------------------------------------------------------------- C11
\* C11: in every reachable state every cache entry is a list of at most two
\* atlases, each a fill atlas (z = 0) or an outline atlas (z < 0), with at
\* most one of each kind; so an entity's outline atlas lies strictly below
\* its fill atlas whenever both exist.
C11_AtMostOneAtlasPerLayer ==
  \A e \in DOMAIN cache :
    /\ Len(cache[e]) <= 2
    /\ \A i \in 1..Len(cache[e]) : cache[e][i].z <= FillZ
    /\ Cardinality({i \in 1..Len(cache[e]) : cache[e][i].z = FillZ}) <= 1
    /\ Cardinality({i \in 1..Len(cache[e]) : cache[e][i].z < FillZ}) <= 1
    /\ \A i, j \in 1..Len(cache[e]) :
         (cache[e][i].z = FillZ /\ cache[e][j].z # FillZ)
           => cache[e][j].z < cache[e][i].z

\* An entry holds both a fill atlas and an outline atlas.
C11_Witness ==
  \E e \in DOMAIN cache :
    /\ Len(cache[e]) = 2
    /\ \E i, j \in 1..2 : cache[e][i].z = FillZ /\ cache[e][j].z < FillZ

\* --------------------------------------------------------------------- C18
\* The position and layer of each atlas of a list, without the image handles.
Layers(list) == [i \in 1..Len(list) |-> [x |-> list[i].x, y |-> list[i].y, z |-> list[i].z]]

\* The atlases composed from the entity's current StyledText, Anchor and the
\* current scale factor.
CurrentLayers(e) ==
  Layers(ComposeGroups({}, create_glyph_images(text[e], anchor[e], scale_factor).glyphs).list)

\* C18: after every recompute cycle, every entity with StyledText and Anchor
\* whose font resolves has the cache entry composed from its current
\* StyledText, current Anchor and the current scale factor; in particular a
\* StyledText change that arrived while the font did not resolve is not lost
\* once the font resolves.  Stated for the cycles that return and the texts
\* whose glyphs all render.
C18_EntryIsOfCurrentText ==
  (AfterCycle /\ ~panicked) =>
    \A e \in Entities :
      (/\ InQuery(e)
       /\ FontResolves(e)
       /\ ~create_glyph_images(text[e], anchor[e], scale_factor).panic)
        => (HasEntry(e) /\ Layers(cache[e]) = CurrentLayers(e))

\* ------------------------------------------------ claims about the layout
\* These read bench: after Layout it holds the input, the lines with their
\* local glyph offsets, and the result of create_glyph_images.

Laid == bench.stage = "laid" /\ ~bench.result.panic

\* The shaped size, the metrics and the measures of the text of bench.
BenchSize == bench.text.font_style.size \div bench.scale_factor
BenchMetrics == Metrics(bench.text.font_style.font, BenchSize)
BenchLineHeight == BenchMetrics.ascent + BenchMetrics.descent + BenchMetrics.leading
BenchTextWidth ==
  CHOOSE w \in {bench.lines[i].width : i \in 1..Len(bench.lines)} \cup {0} :
    /\ w >= 0
    /\ \A i \in 1..Len(bench.lines) : bench.lines[i].width <= w
BenchTextHeight ==
  BenchMetrics.descent + BenchMetrics.ascent + (Len(bench.lines) - 1) * BenchLineHeight

\* The number of glyph images on the lines before line i.
RECURSIVE GlyphsBefore(_, _)
GlyphsBefore(lines, i) ==
  IF i = 1 THEN 0 ELSE GlyphsBefore(lines, i - 1) + Len(lines[i - 1].glyphs)

\* The glyph image of the result that is the k-th of line i.
Placed(i, k) == bench.result.glyphs[GlyphsBefore(bench.lines, i) + k]

\* The same text laid out with another anchor, or another justification.
WithAnchor(a) == create_glyph_images(bench.text, a, bench.scale_factor).glyphs
WithJustify(j) ==
  create_glyph_images([bench.text EXCEPT !.justify = j], bench.anchor,
                      bench.scale_factor).glyphs

HasOutlinedSection(t) == \E i \in DOMAIN t.sections : t.sections[i].outline # OutlineNone

\* --------------------------------------------------------------------- C12
\* C12: for a StyledText in which no section has an outline, the glyph images
\* a recompute lays out are all fill glyphs and the atlas list composed from
\* them holds no outline atlas (z < 0), for every text, justification, anchor
\* and scale factor.
C12_NoOutlineSectionNoOutlineAtlas ==
  (Laid /\ ~HasOutlinedSection(bench.text)) =>
    /\ \A k \in 1..Len(bench.result.glyphs) : bench.result.glyphs[k].offset_z = FillZ
    /\ \A atlas \in
           {ComposeGroups({}, bench.result.glyphs).list[i] :
              i \in 1..Len(ComposeGroups({}, bench.result.glyphs).list)} :
         atlas.z = FillZ

\* A two-line text without outline was laid out into several glyph images.
C12_Witness ==
  /\ Laid /\ ~HasOutlinedSection(bench.text)
  /\ Len(bench.lines) = 2
  /\ Len(bench.result.glyphs) >= 3
  /\ Len(ComposeGroups({}, bench.result.glyphs).list) = 1

\* --------------------------------------------------------------------- C13
\* The offset of every glyph moves by (dx, dy) between the result of bench
\* and the layout of the same text with anchor a.
ShiftedBy(a, dx, dy) ==
  /\ Len(WithAnchor(a)) = Len(bench.result.glyphs)
  /\ \A k \in 1..Len(bench.result.glyphs) :
       /\ WithAnchor(a)[k].offset_x = bench.result.glyphs[k].offset_x + dx
       /\ WithAnchor(a)[k].offset_y = bench.result.glyphs[k].offset_y + dy

\* C13, as stated: with everything else fixed, changing the anchor from
\* (-1,-1) to (1,1) shifts every glyph's final offset by exactly
\* (-text_width, -text_height).
C13_AnchorShiftIsOneBox ==
  (Laid /\ bench.anchor = AnchorCustomMin) =>
    ShiftedBy(AnchorCustomMax, -BenchTextWidth, -BenchTextHeight)

\* C13, amended: with anchor offsets -anchor.x * text_width - text_width/2 and
\* -anchor.y * text_height - text_height/2, changing the anchor from (-1,-1)
\* to (1,1) shifts every glyph by (-2 * text_width, -2 * text_height); the
\* shift is (-text_width, -text_height) between the anchors (-0.5,-0.5) and
\* (0.5,0.5), which are Anchor::BottomLeft and Anchor::TopRight, and the
\* anchor (-0.5,-0.5) adds no offset at all.
C13_AnchorShiftIsTwoBoxes ==
  /\ (Laid /\ bench.anchor = AnchorCustomMin) =>
       ShiftedBy(AnchorCustomMax, -2 * BenchTextWidth, -2 * BenchTextHeight)
  /\ (Laid /\ bench.anchor = AnchorBottomLeft) =>
       /\ ShiftedBy(AnchorTopRight, -BenchTextWidth, -BenchTextHeight)
       /\ \A i \in 1..Len(bench.lines) :
            \A k \in 1..Len(bench.lines[i].glyphs) :
              /\ Placed(i, k).offset_x - bench.lines[i].glyphs[k].offset_x
                   = Padding(bench.text.justify, BenchTextWidth, bench.lines[i].width)
              /\ Placed(i, k).offset_y - bench.lines[i].glyphs[k].offset_y
                   = (Len(bench.lines) - i) * BenchLineHeight

\* A text of non-zero width and height was laid out with the anchor (-1,-1).
C13_Witness ==
  /\ Laid /\ bench.anchor = AnchorCustomMin
  /\ Len(bench.result.glyphs) >= 2
  /\ BenchTextWidth > 0 /\ BenchTextHeight > 0

\* --------------------------------------------------------------------- C14
\* C14: for a text with Center justification every glyph of a line has its
\* final x offset shifted, relative to the same text with Left justification,
\* by exactly (text_width - line.width) / 2, text_width being the largest
\* line width; the shift is 0 on a widest line and never negative; with Right
\* justification the shift is text_width - line.width.
C14_JustifyShiftsByPadding ==
  (Laid /\ bench.text.justify # "Left") =>
    /\ Len(WithJustify("Left")) = Len(bench.result.glyphs)
    /\ \A i \in 1..Len(bench.lines) :
         \A k \in 1..Len(bench.lines[i].glyphs) :
           LET shift == Placed(i, k).offset_x
                          - WithJustify("Left")[GlyphsBefore(bench.lines, i) + k].offset_x
           IN /\ shift >= 0
              /\ bench.lines[i].width = BenchTextWidth => shift = 0
              /\ bench.text.justify = "Center"
                   => 2 * shift = BenchTextWidth - bench.lines[i].width
              /\ bench.text.justify = "Right"
                   => shift = BenchTextWidth - bench.lines[i].width
              /\ Placed(i, k).offset_y
                   = WithJustify("Left")[GlyphsBefore(bench.lines, i) + k].offset_y

\* A centred text has a line shorter than its widest line, with a glyph on it.
C14_Witness ==
  /\ Laid /\ bench.text.justify = "Center"
  /\ \E i, j \in 1..Len(bench.lines) :
       /\ bench.lines[i].width < bench.lines[j].width
       /\ bench.lines[j].width = BenchTextWidth
       /\ Len(bench.lines[i].glyphs) > 0
       /\ Len(bench.lines[j].glyphs) > 0

\* --------------------------------------------------------------------- C16
\* The anchor offset in y: -anchor.y * text_height - text_height / 2.
BenchAnchorY == -Half(bench.anchor.y * BenchTextHeight) - Half(BenchTextHeight)

\* C16: for a text of n lines every glyph of line i (0-based, in shaping
\* order) has (n - 1 - i) * line_height added to its y offset, with
\* line_height = ascent + descent + leading: the first line is the topmost,
\* each later line lies one line_height lower, the last line gets none.
C16_LinesStackDownwards ==
  Laid =>
    \A i \in 1..Len(bench.lines) :
      \A k \in 1..Len(bench.lines[i].glyphs) :
        Placed(i, k).offset_y
          = bench.lines[i].glyphs[k].offset_y + BenchAnchorY
              + (Len(bench.lines) - i) * BenchLineHeight

\* A text of three lines has glyphs on its first and last line.
C16_Witness ==
  /\ Laid
  /\ Len(bench.lines) = 3
  /\ Len(bench.lines[1].glyphs) > 0
  /\ Len(bench.lines[3].glyphs) > 0
  /\ Placed(1, 1).offset_y - bench.lines[1].glyphs[1].offset_y
       = Placed(3, 1).offset_y - bench.lines[3].glyphs[1].offset_y + 2 * BenchLineHeight

\* --------------------------------------------------------------------- C15
\* The clusters of the text of bench, in shaping order.
BenchClusters == add_section_to_shaper(bench.text.sections, 1)

\* The number of newline clusters among the first i clusters.
NewlinesUpTo(i) == Cardinality({k \in 1..i : IsNewline(BenchClusters[k])})

\* The bitmaps a cluster that is not a newline contributes: its fill when
\* inked, and its outline when inked and its section has one.
BitmapsOf(cluster) ==
  IF BaseGlyph(bench.text.font_style.font, cluster.ch).width = 0
     \/ BaseGlyph(bench.text.font_style.font, cluster.ch).height = 0
  THEN 0
  ELSE IF bench.text.sections[cluster.data].outline # OutlineNone THEN 2 ELSE 1

\* The advances, and the bitmaps, of the clusters of line j that are not
\* newlines, summed over the clusters from i on.
RECURSIVE AdvanceOfLine(_, _)
AdvanceOfLine(j, i) ==
  IF i > Len(BenchClusters) THEN 0
  ELSE (IF ~IsNewline(BenchClusters[i]) /\ NewlinesUpTo(i) = j - 1
        THEN BaseGlyph(bench.text.font_style.font, BenchClusters[i].ch).advance * BenchSize
        ELSE 0)
       + AdvanceOfLine(j, i + 1)

RECURSIVE BitmapsOfLine(_, _)
BitmapsOfLine(j, i) ==
  IF i > Len(BenchClusters) THEN 0
  ELSE (IF ~IsNewline(BenchClusters[i]) /\ NewlinesUpTo(i) = j - 1
        THEN BitmapsOf(BenchClusters[i])
        ELSE 0)
       + BitmapsOfLine(j, i + 1)

\* C15: a newline cluster acts only as a line boundary: it closes the line
\* with the cursor as its width and resets the cursor, and contributes no
\* positioned bitmap and no advance; so the number of lines is the number of
\* newline clusters plus one, and the width and the bitmaps of every line are
\* those of its clusters that are not newlines.
C15_NewlineIsOnlyABoundary ==
  Laid =>
    /\ Len(bench.lines) = NewlinesUpTo(Len(BenchClusters)) + 1
    /\ \A j \in 1..Len(bench.lines) :
         /\ bench.lines[j].width = AdvanceOfLine(j, 1)
         /\ Len(bench.lines[j].glyphs) = BitmapsOfLine(j, 1)

\* The same for the fonts that map the newline character to an empty glyph
\* without advance.
C15_WithEmptyNewlineGlyph ==
  (Laid /\ BaseGlyph(bench.text.font_style.font, NL).advance = 0
        /\ BaseGlyph(bench.text.font_style.font, NL).width = 0)
    => C15_NewlineIsOnlyABoundary

\* ----------------------------------------------- claims about the composer
\* These read bench after a composition: the group that was composed and the
\* atlas compose_glyph_images built from it.

WasComposed == bench.stage = "composed"

\* The pixel column and row of a buffer index, rows counted from the top.
ColumnOf(index) == index % bench.atlas.total_width
RowOf(index) == index \div bench.atlas.total_width

\* The nearest integer to a non-negative value in units of 1/Fine, halves
\* rounded up, and the least integer not below it.
Nearest(v) == CHOOSE n \in 0..(v + 1) : 2 * Fine * n - Fine <= 2 * v /\ 2 * v < 2 * Fine * n + Fine
Ceiling(v) == CHOOSE n \in 0..(v + 1) : Fine * (n - 1) < v /\ v <= Fine * n

\* The left column and the top row of a member's rectangle in the atlas: the
\* atlas spans from the least offset of the group, and its rows run downwards
\* from the top of the box.
LeftColumn(i) ==
  Nearest(bench.group[i].offset_x
            - MinOffsetX(bench.group, 1))
TopRow(i) ==
  bench.atlas.total_height - bench.group[i].image.height
    - Nearest(bench.group[i].offset_y - MinOffsetY(bench.group, 1))

\* The members that cover the pixel at index with a pixel of non-zero alpha.
Covering(index) ==
  { i \in 1..Len(bench.group) :
      /\ ColumnOf(index) - LeftColumn(i) \in 0..(bench.group[i].image.width - 1)
      /\ RowOf(index) - TopRow(i) \in 0..(bench.group[i].image.height - 1)
      /\ BitmapAlpha(bench.group[i].image, ColumnOf(index) - LeftColumn(i),
                     RowOf(index) - TopRow(i)) # 0 }

\* --------------------------------------------------------------------- C17
\* C17: in a composed atlas a pixel is fully transparent if no member covers
\* it with a pixel of non-zero alpha, and otherwise it is, unblended, the
\* pixel of the last member in glyph-creation order that does; a source pixel
\* of alpha 0 never changes the destination.
C17_LastOpaqueMemberWins ==
  WasComposed =>
    \A index \in DOMAIN bench.atlas.data :
      IF Covering(index) = {}
      THEN bench.atlas.data[index] = Transparent
      ELSE bench.atlas.data[index]
             = [color |-> bench.group[MaxOf(Covering(index))].image.color, alpha |-> 255]

\* Two members overlap in a pixel where the later one is transparent and the
\* earlier one is not, and in a pixel where both are opaque.
C17_Witness ==
  /\ WasComposed
  /\ Len(bench.group) = 2
  /\ \E index \in DOMAIN bench.atlas.data :
       /\ Covering(index) = {1}
       /\ ColumnOf(index) - LeftColumn(2) = 0
       /\ RowOf(index) - TopRow(2) = 0
       /\ bench.group[2].image.width > 1
  /\ \E index \in DOMAIN bench.atlas.data : Covering(index) = {1, 2}

\* --------------------------------------------------------------------- C19
\* C19: for every non-empty group of positioned bitmaps with integer sizes
\* and possibly fractional offsets, every member's destination rectangle lies
\* inside the allocated buffer: round(offset_x - x_min) + width <= total_width
\* and round(offset_y - y_min) + height <= total_height; the unsigned
\* subtraction for dest_y never underflows and no destination index is out of
\* range or in another row.
C19_MembersFitTheBuffer ==
  WasComposed =>
    /\ ~bench.atlas.underflow
    /\ ~bench.atlas.out_of_range
    /\ \A i \in 1..Len(bench.group) :
         /\ Nearest(bench.group[i].offset_x - MinOffsetX(bench.group, 1))
              + bench.group[i].image.width <= bench.atlas.total_width
         /\ Nearest(bench.group[i].offset_y - MinOffsetY(bench.group, 1))
              + bench.group[i].image.height <= bench.atlas.total_height
         /\ DestX(bench.group[i], BoundingBox(bench.group)) = LeftColumn(i)
         /\ DestY(bench.group[i], BoundingBox(bench.group)) = TopRow(i)
         /\ TopRow(i) >= 0
         /\ \A sx \in 0..(bench.group[i].image.width - 1),
               sy \in 0..(bench.group[i].image.height - 1) :
              /\ DestIndex(bench.group[i], BoundingBox(bench.group), sx, sy) \in DOMAIN bench.atlas.data
              /\ RowOf(DestIndex(bench.group[i], BoundingBox(bench.group), sx, sy)) = TopRow(i) + sy

\* A member with a fractional offset that rounds up ends exactly at the last
\* column of the buffer.
C19_Witness ==
  /\ WasComposed
  /\ \E i \in 1..Len(bench.group) :
       /\ (bench.group[i].offset_x - MinOffsetX(bench.group, 1)) % Fine = 2
       /\ LeftColumn(i) + bench.group[i].image.width = bench.atlas.total_width
       /\ bench.atlas.total_width * Fine
            > bench.group[i].offset_x - MinOffsetX(bench.group, 1)
                + bench.group[i].image.width * Fine

====
